---- MODULE Spec2Model ----
(***************************************************************************)
(* Model of torchbeast/polybeast.py (spiralpp): the ReplayBuffer, the      *)
(* inference and learner threads with their locks, the reward pipeline of  *)
(* learn() and the shared stats map.                                       *)
(***************************************************************************)
EXTENDS Integers, Sequences, FiniteSets, TLC

(***************************************************************************)
(* Bounds of the model.                                                    *)
(***************************************************************************)
\* largest ReplayBuffer capacity explored (flags.replay_buffer_size)
MaxCapacity == 2
\* largest number of frames carried by one push
MaxRequest == 5
\* frames pushed in one run of the buffer specification
MaxFrames == 7
\* largest number of frames one sample() asks for (flags.batch_size)
MaxBatch == 3
\* flags.unroll_length: a batch holds the timesteps 0..UnrollLength
UnrollLength == 2
\* rewards of the environment are drawn from 0..MaxReward
MaxReward == 1
\* flags.batch_size: actor columns of one learner batch
BatchSize == 2
\* parameter tensors of the policy network (entries of its state_dict)
NumParams == 2
\* rollout batches the actors produce in one run
MaxBatches == 2
\* inference batches the actors ask for in one run
MaxInferences == 2
\* the saved state of a component is one of 1..MaxSaved (0: freshly built)
MaxSaved == 2
\* at most MaxPeriodic times the ten minutes of line 769 have passed
MaxPeriodic == 1

\* flags.num_learner_threads (default)
NumLearnerThreads == 2
\* flags.num_inference_threads (default)
NumInferenceThreads == 2

\* the placeholder push() extends the list with (Python None)
None == 0

VARIABLES
    \* ---- ReplayBuffer (class ReplayBuffer) ----
    capacity,       \* self.capacity
    buffer,         \* self.buffer, a Python list of frames
    position,       \* self.position
    pushed,         \* history: number of frames pushed so far (frame k is the k-th pushed)
    request,        \* history: number of frames of the last push (0: none yet)
    maxRequest,     \* history: the largest number of frames any push carried
    prePosition,    \* history: self.position when the last push started
    slots,          \* history: the list indices random.sample drew in the last sample()
    fake            \* the value returned by the last sample(), <<>> after a push

VARIABLES
    \* ---- one iteration of learn(): the reward channel (one actor column) ----
    use_tca,              \* flags.use_tca
    done,                 \* env_outputs.done, timesteps 0..T
    reward,               \* the tensor bound to `reward` and to env_outputs[1]
    inReward,             \* history: the reward channel as it came off the queue
    final_render_exists,  \* line 283 / 287
    r,                    \* the discriminator reward of lines 303, 307, 313
    vtraceRewards,        \* rewards= argument of vtrace.from_logits
    vtraceArgs,           \* the timesteps the arguments of vtrace.from_logits hold
    mean_discriminator_returns,  \* stats["mean_discriminator_returns"]
    spc                   \* where the iteration is

VARIABLES
    \* ---- train(): the threads, the queues, the models, the stats map ----
    lpc,                \* where each learner thread is in learn()
    ipc,                \* where each inference thread is in inference()
    apc,                \* the actorpool thread
    mpc,                \* the main thread of train() (the monitor)
    held,               \* the threading.Lock objects that are held
    model,              \* the training policy: the number of optimizer steps in its weights
    actor_model,        \* the serving policy: per parameter, the model version it holds
    copied,             \* per learner: parameters load_state_dict has copied so far
    seen,               \* per inference thread: versions its forward pass has read so far
    learner_queue,      \* batches waiting in the learner queue
    learner_closed,     \* learner_queue.close() was called
    inference_batcher,  \* batches of requests waiting in the inference batcher
    inference_closed,   \* inference_batcher.close() was called
    produced,           \* history: rollout batches the actors have enqueued
    requested,          \* history: inference batches the actors have asked for
    stats,              \* the shared stats dict
    initial_step,       \* history: stats.get("step", 0) when the threads start
    step_read,          \* per learner: the value stats.get("step", 0) gave at line 390
    completed           \* history: learner iterations that have run to line 410

VARIABLES
    \* ---- train(): the start-up, lines 665-736 ----
    tpc,            \* where train() is before the monitor loop
    ckpt,           \* the record at checkpointpath, NoFile when there is none
    saved,          \* history: the state each component had when ckpt was saved
    objects,        \* the state of each object train() builds
    restored,       \* history: the load of lines 669-678 has been done
    started         \* the threads start() has been called on, in order

VARIABLES
    \* ---- learn_D: one iteration, lines 430-483 ----
    dpc,            \* where the discriminator learner is
    pulls,          \* history: next(replay_queue) calls of this iteration
    normalised      \* history: the frames pushed as (canvas - 0.5) / 0.5

VARIABLES
    \* ---- train(): checkpoints, interrupt and shutdown, lines 738-799 ----
    disable_checkpoint, \* flags.disable_checkpoint
    interrupted,    \* history: KeyboardInterrupt was raised in the monitor loop
    saving,         \* checkpoint(): the weights serialised so far, <<>> outside
    checkpoint_file,\* the record at checkpointpath
    writes,         \* history: completed torch.save calls of this run
    periodic,       \* history: checkpoint() calls of line 771
    final,          \* history: the checkpoint() of line 790 has written
    joined,         \* the threads join() has returned for, in order
    replay_closed   \* replay_queue is closed

VARIABLES
    \* ---- the objects the threads of lines 685-729 are given ----
    opos,           \* per thread: the accesses of its current iteration done
    accesses        \* history: <<thread, object, "read" or "write">>

bufVars == <<capacity, buffer, position, pushed, request, maxRequest,
             prePosition, slots, fake>>

shapeVars == <<use_tca, done, reward, inReward, final_render_exists, r,
               vtraceRewards, vtraceArgs, mean_discriminator_returns, spc>>

threadVars == <<lpc, ipc, apc, mpc, held, model, actor_model, copied, seen,
                learner_queue, learner_closed, inference_batcher,
                inference_closed, produced, requested, stats, initial_step,
                step_read, completed>>

startVars == <<tpc, ckpt, saved, objects, restored, started>>

dVars == <<dpc, pulls, normalised>>

runVars == <<disable_checkpoint, interrupted, saving, checkpoint_file, writes,
             periodic, final, joined, replay_closed>>

ownVars == <<opos, accesses>>

vars == <<bufVars, shapeVars, threadVars, startVars, dVars, runVars, ownVars>>

(***************************************************************************)
(* Python list helpers.  Python indices are 0-based, TLA+ sequences are    *)
(* 1-based: list[i] is seq[i + 1].                                         *)
(***************************************************************************)
Min(a, b) == IF a < b THEN a ELSE b

Max(a, b) == IF a > b THEN a ELSE b

Range(s) == {s[i] : i \in 1..Len(s)}

\* list[:k]
Take(s, k) == SubSeq(s, 1, Min(Max(k, 0), Len(s)))

\* list[k:]
Drop(s, k) == SubSeq(s, Min(Max(k, 0), Len(s)) + 1, Len(s))

\* list[i:j] = vals  (slice bounds are clipped to the list, the slice is
\* replaced by vals whatever their number)
SliceAssign(s, i, j, vals) ==
    LET lo == Min(Max(i, 0), Len(s))
        hi == Max(Min(Max(j, 0), Len(s)), lo)
    IN  Take(s, lo) \o vals \o Drop(s, hi)

\* [None for _ in range(size)]
Nones(size) == [k \in 1..Max(size, 0) |-> None]

(***************************************************************************)
(* ReplayBuffer.push, statement by statement.                              *)
(***************************************************************************)
\* mutant of PushExtend: the list grows on every push
PushExtendAlways(buf, pos, cap, frames) ==
    buf \o Nones(IF Len(frames) > cap THEN cap - pos ELSE Len(frames))

\* lines 195-202: the list grows while it is shorter than the capacity
PushExtend(buf, pos, cap, frames) ==
    LET req       == Len(frames)
        free      == cap - pos
        available == Len(buf) - pos
        size      == IF req > cap THEN free ELSE req
    IN  IF available < free THEN buf \o Nones(size) ELSE buf

\* line 204: does the request run past the end of the store
PushWraps(pos, cap, frames) == Len(frames) > cap - pos

\* lines 204-205: the head part goes to buffer[position:]
PushHead(buf, pos, cap, frames) ==
    IF PushWraps(pos, cap, frames)
        THEN SliceAssign(buf, pos, Len(buf), Take(frames, cap - pos))
        ELSE buf

\* lines 207, 211: what is left to write after the head part
PushRest(pos, cap, frames) ==
    IF PushWraps(pos, cap, frames) THEN Drop(frames, cap - pos) ELSE frames

\* mutant of PushRestart: the write position is not reset
PushRestartStays(pos, cap, frames) == pos

\* line 209: the write position after the head part
PushRestart(pos, cap, frames) ==
    IF PushWraps(pos, cap, frames) THEN 0 ELSE pos

\* line 213: self.buffer[self.position : self.position + request] = frames
PushBuffer(buf, pos, cap, frames) ==
    LET b1   == PushExtend(buf, pos, cap, frames)
        b2   == PushHead(b1, pos, cap, frames)
        rest == PushRest(pos, cap, frames)
        p2   == PushRestart(pos, cap, frames)
    IN  SliceAssign(b2, p2, p2 + Len(rest), rest)

\* line 214: self.position = (self.position + request) % self.capacity
PushPosition(pos, cap, frames) ==
    (PushRestart(pos, cap, frames) + Len(PushRest(pos, cap, frames))) % cap

\* frame.split(1): the frames of one push, numbered in the order pushed
Frames(n) == [k \in 1..n |-> pushed + k]

\* ReplayBuffer.push(frame) with n frames
Push(n) ==
    /\ pushed + n <= MaxFrames
    /\ buffer' = PushBuffer(buffer, position, capacity, Frames(n))
    /\ position' = PushPosition(position, capacity, Frames(n))
    /\ pushed' = pushed + n
    /\ request' = n
    /\ maxRequest' = Max(maxRequest, n)
    /\ prePosition' = position
    /\ slots' = <<>>
    /\ fake' = <<>>
    /\ UNCHANGED capacity
    /\ UNCHANGED <<shapeVars, threadVars, startVars, runVars, ownVars>>

(***************************************************************************)
(* ReplayBuffer.sample: random.sample(self.buffer, k) draws k distinct     *)
(* positions of the list, torch.cat joins the frames in the order drawn.   *)
(***************************************************************************)
\* mutant of RandomSample: drawing with replacement (random.choices)
RandomChoices(population, k) == [1..k -> 1..Len(population)]

\* the draws random.sample can make: k different indices, in any order
RandomSample(population, k) ==
    {s \in [1..k -> 1..Len(population)] : \A a, b \in 1..k : a # b => s[a] # s[b]}

\* torch.cat(frames) of the frames at the drawn indices
Cat(population, drawn) == [a \in 1..Len(drawn) |-> population[drawn[a]]]

\* ReplayBuffer.sample(batch_size); batch_size > len(buffer) raises ValueError
Sample(k) ==
    /\ k <= Len(buffer)
    /\ \E drawn \in RandomSample(buffer, k) :
        /\ slots' = drawn
        /\ fake' = Cat(buffer, drawn)
    /\ UNCHANGED <<capacity, buffer, position, pushed, request, maxRequest,
                   prePosition>>
    /\ UNCHANGED <<shapeVars, threadVars, startVars, runVars, ownVars>>

\* ReplayBuffer.__init__(capacity)
InitBuffer ==
    /\ capacity \in 1..MaxCapacity
    /\ buffer = <<>>
    /\ position = 0
    /\ pushed = 0
    /\ request = 0
    /\ maxRequest = 0
    /\ prePosition = 0
    /\ slots = <<>>
    /\ fake = <<>>

(***************************************************************************)
(* learn(): the reward channel of one iteration, lines 275-353.  A tensor  *)
(* over the timesteps 0..T is a sequence of length T + 1 (timestep t at    *)
(* index t + 1); one actor column of the [T + 1, B] tensors is modelled.   *)
(***************************************************************************)
Steps == 1..(UnrollLength + 1)

\* the values reward_func (lines 246-248) can give: a log-odds of either sign
RValues == {-1, 1}

\* done[1:].any()
AnyDone(d) == \E t \in 2..Len(d) : d[t]

\* done[1:].nonzero() with index[:, 0] += 1: the timesteps >= 1 that end an
\* episode, in increasing order
RECURSIVE DoneIndexFrom(_, _)
DoneIndexFrom(d, t) ==
    IF t > Len(d) THEN <<>>
    ELSE (IF d[t] THEN <<t>> ELSE <<>>) \o DoneIndexFrom(d, t + 1)

DoneIndex(d) == DoneIndexFrom(d, 2)

\* where timestep-index t stands in index, 0 when it does not
RECURSIVE PlaceIn(_, _, _)
PlaceIn(index, t, k) ==
    IF k > Len(index) THEN 0
    ELSE IF index[k] = t THEN k ELSE PlaceIn(index, t, k + 1)

\* reward[1:] += r  (in place; r has one entry per timestep 1..T)
AddFromStepOne(rew, rr) ==
    [t \in 1..Len(rew) |-> IF t = 1 THEN rew[t] ELSE rew[t] + rr[t - 1]]

\* reward[index[:, 0], index[:, 1]] += r  (in place; r has one entry per
\* episode end)
AddAtIndex(rew, index, rr) ==
    [t \in 1..Len(rew) |->
        IF PlaceIn(index, t, 1) = 0 THEN rew[t]
        ELSE rew[t] + rr[PlaceIn(index, t, 1)]]

\* a += b on a torch tensor: Tensor.__iadd__ adds in place and gives the
\* same tensor back
IAdd(a, b) == [t \in 1..Len(a) |-> a[t] + b[t]]

\* t[1:]
FromStepOne(t) == SubSeq(t, 2, Len(t))

\* lines 280-314: final_render_exists and the discriminator reward, added to
\* the reward tensor in place
ShapeReward ==
    /\ spc = "shape"
    /\ final_render_exists' = AnyDone(done)
    /\ IF use_tca
          THEN \E rr \in [1..UnrollLength -> RValues] :
                  /\ r' = rr
                  /\ reward' = AddFromStepOne(reward, rr)
          ELSE IF AnyDone(done)
          THEN \E rr \in [1..Len(DoneIndex(done)) -> RValues] :
                  /\ r' = rr
                  /\ reward' = AddAtIndex(reward, DoneIndex(done), rr)
          ELSE /\ r' = <<>>
               /\ reward' = reward
    /\ spc' = "add"
    /\ UNCHANGED <<use_tca, done, inReward, vtraceRewards, vtraceArgs,
                   mean_discriminator_returns>>
    /\ UNCHANGED <<bufVars, threadVars, startVars, dVars, runVars, ownVars>>

\* lines 316-318: env_outputs[1] is the tensor `reward` itself (line 278), so
\* env_outputs[1] += reward adds the tensor to itself, in place
EnvOutputsAddReward ==
    /\ spc = "add"
    /\ reward' = IAdd(reward, reward)
    /\ spc' = "vtrace"
    /\ UNCHANGED <<use_tca, done, inReward, final_render_exists, r,
                   vtraceRewards, vtraceArgs, mean_discriminator_returns>>
    /\ UNCHANGED <<bufVars, threadVars, startVars, dVars, runVars, ownVars>>

\* the tensors over the timesteps 0..T (the batch, the outputs of the model
\* at line 324), each entry standing for the timestep it belongs to
Timesteps == [k \in Steps |-> k - 1]

\* mutant of UpToLast: nothing is cut
UpToLastKeepsAll(t) == t

\* t[:-1]
UpToLast(t) == SubSeq(t, 1, Len(t) - 1)

\* t[-1]
Last(t) == t[Len(t)]

\* lines 324-353: bootstrap_value is taken from the outputs of the model
\* before they are cut (line 328); batch = nest.map(lambda t: t[1:], batch)
\* slices the tensors of the batch, the reward tensor among them (line 331);
\* the outputs of the model lose their last timestep (line 332)
VTraceFromLogits ==
    /\ spc = "vtrace"
    /\ vtraceRewards' = FromStepOne(reward)
    /\ vtraceArgs' =
          [behavior_policy_logits |-> FromStepOne(Timesteps),
           target_policy_logits   |-> UpToLast(Timesteps),
           actions                |-> FromStepOne(Timesteps),
           discounts              |-> FromStepOne(Timesteps),
           rewards                |-> FromStepOne(Timesteps),
           values                 |-> UpToLast(Timesteps),
           bootstrap_value        |-> Last(Timesteps)]
    /\ spc' = "loss"
    /\ UNCHANGED <<use_tca, done, reward, inReward, final_render_exists, r,
                   mean_discriminator_returns>>
    /\ UNCHANGED <<bufVars, threadVars, startVars, dVars, runVars, ownVars>>

\* the sum of the entries of a tensor
RECURSIVE Sum(_)
Sum(t) == IF t = <<>> THEN 0 ELSE t[1] + Sum(Tail(t))

\* torch.mean(r).item(), as the pair <<sum, number of entries>>; None is the
\* empty tuple
Mean(t) == <<Sum(t), Len(t)>>

\* lines 383-409: the statistics of the iteration; discriminator_returns is
\* the mean of r when final_render_exists and None otherwise (lines 385-388)
LearnStats ==
    /\ spc = "loss"
    /\ mean_discriminator_returns' =
          IF final_render_exists THEN Mean(r) ELSE <<>>
    /\ spc' = "stats"
    /\ UNCHANGED <<use_tca, done, reward, inReward, final_render_exists, r,
                   vtraceRewards, vtraceArgs>>
    /\ UNCHANGED <<bufVars, threadVars, startVars, dVars, runVars, ownVars>>

(***************************************************************************)
(* train(): the threads it starts (lines 685-736) and what they share.     *)
(***************************************************************************)
Learners == 1..NumLearnerThreads

InferenceThreads == 1..NumInferenceThreads

\* flags.unroll_length * flags.batch_size (line 390)
StepsPerBatch == UnrollLength * BatchSize

\* flags.total_steps: the run is over when the actors' batches are learned
TotalSteps == MaxBatches * StepsPerBatch

\* mutant of LearnLock: every call of learn() makes a lock of its own
LearnLockPerCall(t) == <<"learn", t>>

\* the lock a learner thread uses: train() passes none (lines 689-699), so it
\* is the default of the parameter (line 268), made once, when learn is defined
LearnLock(t) == <<"learn", 0>>

\* mutant of InferenceLock: every call of inference() makes a lock of its own
InferenceLockPerCall(i) == <<"inference", i>>

\* the lock an inference thread uses: train() passes none (line 708), so it is
\* the default of the parameter (line 225), another object than learn's
InferenceLock(i) == <<"inference", 0>>

\* mutant of StepAfter: the batch size is left out of the increment
StepAfterUnroll(old) == old + UnrollLength

\* line 390: stats.get("step", 0) + flags.unroll_length * flags.batch_size
StepAfter(old) == old + StepsPerBatch

\* mutant of Acquirable: acquire() does not wait
AcquirableAlways(lock) == TRUE

\* threading.Lock.acquire() (lines 237, 289) goes on only when the lock is
\* not held
Acquirable(lock) == lock \notin held

\* ---- learn(), one thread --------------------------------------------------
\* lines 270-287: the next batch of the learner queue, moved to the device
LearnNext(t) ==
    /\ lpc[t] = "next"
    /\ learner_queue > 0
    /\ learner_queue' = learner_queue - 1
    /\ lpc' = [lpc EXCEPT ![t] = "acquire"]
    /\ UNCHANGED <<ipc, apc, mpc, held, model, actor_model, copied, seen,
                   learner_closed, inference_batcher, inference_closed,
                   produced, requested, stats, initial_step, step_read,
                   completed>>
    /\ UNCHANGED <<bufVars, shapeVars, startVars, dVars, runVars, ownVars>>

\* line 270: the iteration over a closed, drained queue ends
LearnExit(t) ==
    /\ lpc[t] = "next"
    /\ learner_queue = 0
    /\ learner_closed
    /\ lpc' = [lpc EXCEPT ![t] = "done"]
    /\ UNCHANGED <<ipc, apc, mpc, held, model, actor_model, copied, seen,
                   learner_queue, learner_closed, inference_batcher,
                   inference_closed, produced, requested, stats, initial_step,
                   step_read, completed>>
    /\ UNCHANGED <<bufVars, shapeVars, startVars, dVars, runVars, ownVars>>

\* line 289: lock.acquire()
LearnAcquire(t) ==
    /\ lpc[t] = "acquire"
    /\ Acquirable(LearnLock(t))
    /\ held' = held \cup {LearnLock(t)}
    /\ lpc' = [lpc EXCEPT ![t] = "update"]
    /\ UNCHANGED <<ipc, apc, mpc, model, actor_model, copied, seen,
                   learner_queue, learner_closed, inference_batcher,
                   inference_closed, produced, requested, stats, initial_step,
                   step_read, completed>>
    /\ UNCHANGED <<bufVars, shapeVars, startVars, dVars, runVars, ownVars>>

\* lines 290-379: reward shaping, forward, V-trace, losses, backward,
\* optimizer.step() and scheduler.step(): the training weights move on
LearnUpdate(t) ==
    /\ lpc[t] = "update"
    /\ model' = model + 1
    /\ lpc' = [lpc EXCEPT ![t] = "publish"]
    /\ UNCHANGED <<ipc, apc, mpc, held, actor_model, copied, seen, learner_queue,
                   learner_closed, inference_batcher, inference_closed,
                   produced, requested, stats, initial_step, step_read,
                   completed>>
    /\ UNCHANGED <<bufVars, shapeVars, startVars, dVars, runVars, ownVars>>

\* line 381: actor_model.load_state_dict(model.state_dict()) copies the
\* parameter tensors into the serving copy one after the other, in place
LearnPublish(t) ==
    /\ lpc[t] = "publish"
    /\ actor_model' = [actor_model EXCEPT ![copied[t] + 1] = model]
    /\ copied' = [copied EXCEPT ![t] =
                     IF copied[t] + 1 = NumParams THEN 0 ELSE copied[t] + 1]
    /\ lpc' = [lpc EXCEPT ![t] =
                  IF copied[t] + 1 = NumParams THEN "get_step" ELSE "publish"]
    /\ UNCHANGED <<ipc, apc, mpc, held, model, seen, learner_queue,
                   learner_closed, inference_batcher, inference_closed,
                   produced, requested, stats, initial_step, step_read,
                   completed>>
    /\ UNCHANGED <<bufVars, shapeVars, startVars, dVars, runVars, ownVars>>

\* line 390, right-hand side: stats.get("step", 0) is read
LearnGetStep(t) ==
    /\ lpc[t] = "get_step"
    /\ step_read' = [step_read EXCEPT ![t] = stats.step]
    /\ lpc' = [lpc EXCEPT ![t] = "set_step"]
    /\ UNCHANGED <<ipc, apc, mpc, held, model, actor_model, copied, seen,
                   learner_queue, learner_closed, inference_batcher,
                   inference_closed, produced, requested, stats, initial_step,
                   completed>>
    /\ UNCHANGED <<bufVars, shapeVars, startVars, dVars, runVars, ownVars>>

\* line 390, the assignment: stats["step"] = ...
LearnSetStep(t) ==
    /\ lpc[t] = "set_step"
    /\ stats' = [stats EXCEPT !.step = StepAfter(step_read[t])]
    /\ step_read' = [step_read EXCEPT ![t] = 0]
    /\ lpc' = [lpc EXCEPT ![t] = "release"]
    /\ UNCHANGED <<ipc, apc, mpc, held, model, actor_model, copied, seen,
                   learner_queue, learner_closed, inference_batcher,
                   inference_closed, produced, requested, initial_step,
                   completed>>
    /\ UNCHANGED <<bufVars, shapeVars, startVars, dVars, runVars, ownVars>>

\* lines 391-410: the other stats, plogger.log(stats), lock.release()
LearnRelease(t) ==
    /\ lpc[t] = "release"
    /\ held' = held \ {LearnLock(t)}
    /\ completed' = completed + 1
    /\ lpc' = [lpc EXCEPT ![t] = "next"]
    /\ UNCHANGED <<ipc, apc, mpc, model, actor_model, copied, seen,
                   learner_queue, learner_closed, inference_batcher,
                   inference_closed, produced, requested, stats, initial_step,
                   step_read>>
    /\ UNCHANGED <<bufVars, shapeVars, startVars, dVars, runVars, ownVars>>

\* ---- inference(), one thread ----------------------------------------------
\* lines 227-235: the next batch of the inference batcher, moved to the device
InferenceNext(i) ==
    /\ ipc[i] = "next"
    /\ inference_batcher > 0
    /\ inference_batcher' = inference_batcher - 1
    /\ ipc' = [ipc EXCEPT ![i] = "acquire"]
    /\ UNCHANGED <<lpc, apc, mpc, held, model, actor_model, copied, seen,
                   learner_queue, learner_closed, inference_closed, produced,
                   requested, stats, initial_step, step_read, completed>>
    /\ UNCHANGED <<bufVars, shapeVars, startVars, dVars, runVars, ownVars>>

\* line 227: the iteration over a closed, drained batcher ends
InferenceExit(i) ==
    /\ ipc[i] = "next"
    /\ inference_batcher = 0
    /\ inference_closed
    /\ ipc' = [ipc EXCEPT ![i] = "done"]
    /\ UNCHANGED <<lpc, apc, mpc, held, model, actor_model, copied, seen,
                   learner_queue, learner_closed, inference_batcher,
                   inference_closed, produced, requested, stats, initial_step,
                   step_read, completed>>
    /\ UNCHANGED <<bufVars, shapeVars, startVars, dVars, runVars, ownVars>>

\* line 237: with lock (entering)
InferenceAcquire(i) ==
    /\ ipc[i] = "acquire"
    /\ Acquirable(InferenceLock(i))
    /\ held' = held \cup {InferenceLock(i)}
    /\ ipc' = [ipc EXCEPT ![i] = "forward"]
    /\ UNCHANGED <<lpc, apc, mpc, model, actor_model, copied, seen, learner_queue,
                   learner_closed, inference_batcher, inference_closed,
                   produced, requested, stats, initial_step, step_read,
                   completed>>
    /\ UNCHANGED <<bufVars, shapeVars, startVars, dVars, runVars, ownVars>>

\* line 238: model(obs, done, agent_state) on the serving copy uses its
\* parameter tensors one after the other
InferenceForward(i) ==
    /\ ipc[i] = "forward"
    /\ Len(seen[i]) < NumParams
    /\ seen' = [seen EXCEPT ![i] = Append(@, actor_model[Len(@) + 1])]
    /\ UNCHANGED <<lpc, ipc, apc, mpc, held, model, actor_model, copied,
                   learner_queue, learner_closed, inference_batcher,
                   inference_closed, produced, requested, stats, initial_step,
                   step_read, completed>>
    /\ UNCHANGED <<bufVars, shapeVars, startVars, dVars, runVars, ownVars>>

\* lines 237-238: with lock (leaving), the forward pass is over
InferenceRelease(i) ==
    /\ ipc[i] = "forward"
    /\ Len(seen[i]) = NumParams
    /\ held' = held \ {InferenceLock(i)}
    /\ ipc' = [ipc EXCEPT ![i] = "set_outputs"]
    /\ UNCHANGED <<lpc, apc, mpc, model, actor_model, copied, seen,
                   learner_queue, learner_closed, inference_batcher,
                   inference_closed, produced, requested, stats, initial_step,
                   step_read, completed>>
    /\ UNCHANGED <<bufVars, shapeVars, startVars, dVars, runVars, ownVars>>

\* lines 240-243: the outputs go back to the requesters
InferenceSetOutputs(i) ==
    /\ ipc[i] = "set_outputs"
    /\ seen' = [seen EXCEPT ![i] = <<>>]
    /\ ipc' = [ipc EXCEPT ![i] = "next"]
    /\ UNCHANGED <<lpc, apc, mpc, held, model, actor_model, copied,
                   learner_queue, learner_closed, inference_batcher,
                   inference_closed, produced, requested, stats, initial_step,
                   step_read, completed>>
    /\ UNCHANGED <<bufVars, shapeVars, startVars, dVars, runVars, ownVars>>

\* ---- learn_D(), the one discriminator thread --------------------------------
\* lines 479-483: stats["D_loss"] = ... and the other keys of learn_D are
\* set, one dict item each (D_loss: 0 while the key is missing, 1 once set)
LearnDStats ==
    /\ stats' = [stats EXCEPT !.D_loss = 1]
    /\ UNCHANGED <<lpc, ipc, apc, mpc, held, model, actor_model, copied, seen,
                   learner_queue, learner_closed, inference_batcher,
                   inference_closed, produced, requested, initial_step,
                   step_read, completed>>
    /\ UNCHANGED <<bufVars, shapeVars, startVars, dVars, runVars, ownVars>>

\* ---- the actorpool thread (actors.run(), line 647) --------------------------
\* an actor asks for an action: a batch of requests in the inference batcher
ActorRequest ==
    /\ apc = "run"
    /\ ~inference_closed
    /\ requested < MaxInferences
    /\ inference_batcher' = inference_batcher + 1
    /\ requested' = requested + 1
    /\ UNCHANGED <<lpc, ipc, apc, mpc, held, model, actor_model, copied, seen,
                   learner_queue, learner_closed, inference_closed, produced,
                   stats, initial_step, step_read, completed>>
    /\ UNCHANGED <<bufVars, shapeVars, startVars, dVars, runVars, ownVars>>

\* the actors have finished an unroll each: a batch in the learner queue
ActorEnqueue ==
    /\ apc = "run"
    /\ ~learner_closed
    /\ produced < MaxBatches
    /\ learner_queue' = learner_queue + 1
    /\ produced' = produced + 1
    /\ UNCHANGED <<lpc, ipc, apc, mpc, held, model, actor_model, copied, seen,
                   learner_closed, inference_batcher, inference_closed,
                   requested, stats, initial_step, step_read, completed>>
    /\ UNCHANGED <<bufVars, shapeVars, startVars, dVars, runVars, ownVars>>

\* the actors find a queue closed and actors.run() ends
ActorStop ==
    /\ apc = "run"
    /\ inference_closed \/ learner_closed
    /\ apc' = "done"
    /\ UNCHANGED <<lpc, ipc, mpc, held, model, actor_model, copied, seen,
                   learner_queue, learner_closed, inference_batcher,
                   inference_closed, produced, requested, stats, initial_step,
                   step_read, completed>>
    /\ UNCHANGED <<bufVars, shapeVars, startVars, dVars, runVars, ownVars>>

(***************************************************************************)
(* train(): checkpoint() (lines 738-754) and the start-up (lines 665-736). *)
(* The state of an object (a state_dict, the stats dict) is a number.      *)
(***************************************************************************)
NoFile == [exists |-> FALSE]

\* the objects whose state a checkpoint holds
Components ==
    {"model", "D", "optimizer", "D_optimizer", "scheduler", "D_scheduler",
     "stats"}

\* the copies that are loaded from the training copies
Copies == {"actor_model", "D_eval"}

\* lines 742-754: the record torch.save writes
CheckpointRecord(obj) ==
    [exists                 |-> TRUE,
     model_state_dict       |-> obj["model"],
     D_state_dict           |-> obj["D"],
     optimizer_state_dict   |-> obj["optimizer"],
     D_optimizer_state_dict |-> obj["D_optimizer"],
     scheduler_state_dict   |-> obj["scheduler"],
     D_scheduler_state_dict |-> obj["D_scheduler"],
     stats                  |-> obj["stats"],
     flags                  |-> "flags"]

\* lines 669-678: what each object is loaded with
LoadCheckpoint(obj, states) ==
    [obj EXCEPT
        !["model"]       = states.model_state_dict,
        !["D"]           = states.D_state_dict,
        !["optimizer"]   = states.optimizer_state_dict,
        !["D_optimizer"] = states.D_optimizer_state_dict,
        !["scheduler"]   = states.D_scheduler_state_dict,
        !["D_scheduler"] = states.scheduler_state_dict,
        !["stats"]       = states.stats]

\* lines 682-683: the serving and the eval copy are loaded from the training
\* copies
LoadCopies(obj) ==
    [obj EXCEPT !["actor_model"] = obj["model"], !["D_eval"] = obj["D"]]

\* lines 733-735: threads + [d_learner], in the order they are started
ThreadList ==
    [k \in 1..NumLearnerThreads |-> <<"learner", k>>]
    \o [k \in 1..NumInferenceThreads |-> <<"inference", k>>]
    \o << <<"d_learner", 0>> >>

\* mutant of StartupOrder: the threads are started before the state is loaded
StartupOrderThreadsFirst ==
    <<"start_actor", "start_threads", "exists", "sync", "monitor">>

\* the statements of train() from line 667 on, in program order
StartupOrder == <<"exists", "sync", "start_actor", "start_threads", "monitor">>

\* the statement after the one at pc
StartupAfter(pc) ==
    LET k == CHOOSE j \in 1..Len(StartupOrder) : StartupOrder[j] = pc
    IN  StartupOrder[k + 1]

\* lines 668-679: if os.path.exists(checkpointpath), the record is loaded
Restore ==
    /\ tpc = "exists"
    /\ IF ckpt.exists
          THEN /\ objects' = LoadCheckpoint(objects, ckpt)
               /\ restored' = TRUE
          ELSE UNCHANGED <<objects, restored>>
    /\ tpc' = StartupAfter("exists")
    /\ UNCHANGED <<ckpt, saved, started>>
    /\ UNCHANGED <<bufVars, shapeVars, threadVars, dVars, runVars, ownVars>>

\* lines 682-683
Sync ==
    /\ tpc = "sync"
    /\ objects' = LoadCopies(objects)
    /\ tpc' = StartupAfter("sync")
    /\ UNCHANGED <<ckpt, saved, restored, started>>
    /\ UNCHANGED <<bufVars, shapeVars, threadVars, dVars, runVars, ownVars>>

\* line 731: actorpool_thread.start()
StartActor ==
    /\ tpc = "start_actor"
    /\ started' = Append(started, <<"actorpool", 0>>)
    /\ tpc' = StartupAfter("start_actor")
    /\ UNCHANGED <<ckpt, saved, objects, restored>>
    /\ UNCHANGED <<bufVars, shapeVars, threadVars, dVars, runVars, ownVars>>

\* the threads of ThreadList that are started
StartedOfList == {k \in 1..Len(ThreadList) : ThreadList[k] \in Range(started)}

\* lines 735-736: for t in threads + [d_learner]: t.start(), one thread per
\* step
StartThread ==
    /\ tpc = "start_threads"
    /\ LET k == Cardinality(StartedOfList) + 1
       IN  /\ started' = Append(started, ThreadList[k])
           /\ tpc' = IF k = Len(ThreadList)
                        THEN StartupAfter("start_threads")
                        ELSE "start_threads"
    /\ UNCHANGED <<ckpt, saved, objects, restored>>
    /\ UNCHANGED <<bufVars, shapeVars, threadVars, dVars, runVars, ownVars>>

(***************************************************************************)
(* train(): the monitor loop, checkpoint() and the shutdown, lines         *)
(* 738-799, and what can end the other threads early.                      *)
(***************************************************************************)
\* mutant of PollExit: the loop is left at the first poll
PollExitAlways(step) == TRUE

\* line 764: if start_step >= flags.total_steps: break
PollExit(step) == step >= TotalSteps

\* mutant of ShutdownOrder: the actorpool thread is joined before the learner
\* queue is closed
ShutdownOrderJoinFirst ==
    <<"checkpoint", "close_inference", "join_actor", "close_learner",
      "join_threads", "done">>

\* lines 790-799 in program order
ShutdownOrder ==
    <<"checkpoint", "close_inference", "close_learner", "join_actor",
      "join_threads", "done">>

\* the statement after the one at pc
ShutdownAfter(pc) ==
    LET k == CHOOSE j \in 1..Len(ShutdownOrder) : ShutdownOrder[j] = pc
    IN  ShutdownOrder[k + 1]

\* mutant of AfterElse: the else clause does not call checkpoint()
AfterElseClose == ShutdownOrder[2]

\* lines 788-790: the loop ended with break, the else clause runs
AfterElse == ShutdownOrder[1]

\* mutant of AfterExcept: the interrupt handler goes through checkpoint()
AfterExceptCheckpoint == ShutdownOrder[1]

\* lines 786-787, 793: the except clause passes, line 793 is next
AfterExcept == ShutdownOrder[2]

\* where checkpoint() returns to: line 772 from the call of line 771, the
\* statement after line 790 from the call of line 790
CheckpointReturn(pc) ==
    IF pc = "periodic" THEN "poll" ELSE ShutdownAfter("checkpoint")

\* the states torch.save serialises after the policy weights; the states of
\* the discriminator side are not followed here (0)
SavedObjects(weights) ==
    [c \in Components |->
        CASE c = "model" -> weights
          [] c \in {"optimizer", "scheduler"} -> model
          [] c = "stats" -> stats
          [] OTHER -> 0]

\* a record torch.save did not finish
PartialFile == [exists |-> TRUE, partial |-> TRUE]

\* lines 733: threads = learner_threads + inference_threads
Threads == SubSeq(ThreadList, 1, NumLearnerThreads + NumInferenceThreads)

\* join() returns for a thread that has ended, by return or by exception
Terminated(thread) ==
    CASE thread[1] = "learner" -> lpc[thread[2]] \in {"done", "failed"}
      [] thread[1] = "inference" -> ipc[thread[2]] = "done"
      [] thread[1] = "actorpool" -> apc \in {"done", "failed"}

\* mutant of AfterRaise: the queues are closed when actors.run() raises
AfterRaiseClosed(closed) == TRUE

\* lines 649-653: the handler of run() logs and re-raises, it closes nothing
AfterRaise(closed) == closed

\* lines 290-409: the statements between lock.acquire() and lock.release()
LockedRegion == {"update", "publish", "get_step", "set_step", "release"}

\* lines 761-765: start_step = stats.get("step", 0); leave the loop at
\* total_steps, else time.sleep(5)
MonitorPoll ==
    /\ mpc = "poll"
    /\ mpc' = IF PollExit(stats.step) THEN AfterElse ELSE "sleep"
    /\ UNCHANGED <<lpc, ipc, apc, held, model, actor_model, copied, seen,
                   learner_queue, learner_closed, inference_batcher,
                   inference_closed, produced, requested, stats, initial_step,
                   step_read, completed>>
    /\ UNCHANGED runVars
    /\ UNCHANGED <<bufVars, shapeVars, startVars, dVars, ownVars>>

\* lines 766-785, ten minutes not over: the sleep ends, the rates are logged
MonitorWake ==
    /\ mpc = "sleep"
    /\ mpc' = "poll"
    /\ UNCHANGED <<lpc, ipc, apc, held, model, actor_model, copied, seen,
                   learner_queue, learner_closed, inference_batcher,
                   inference_closed, produced, requested, stats, initial_step,
                   step_read, completed>>
    /\ UNCHANGED runVars
    /\ UNCHANGED <<bufVars, shapeVars, startVars, dVars, ownVars>>

\* lines 766-771, ten minutes over: checkpoint() is called
MonitorWakeCheckpoint ==
    /\ mpc = "sleep"
    /\ periodic < MaxPeriodic
    /\ periodic' = periodic + 1
    /\ mpc' = "periodic"
    /\ UNCHANGED <<lpc, ipc, apc, held, model, actor_model, copied, seen,
                   learner_queue, learner_closed, inference_batcher,
                   inference_closed, produced, requested, stats, initial_step,
                   step_read, completed>>
    /\ UNCHANGED <<disable_checkpoint, interrupted, saving, checkpoint_file,
                   writes, final, joined, replay_closed>>
    /\ UNCHANGED <<bufVars, shapeVars, startVars, dVars, ownVars>>

\* lines 739-745: checkpoint() returns when checkpointing is disabled, else
\* torch.save starts with the weights of the policy
CheckpointBegin ==
    /\ mpc \in {"checkpoint", "periodic"}
    /\ saving = <<>>
    /\ IF disable_checkpoint
          THEN /\ mpc' = CheckpointReturn(mpc)
               /\ UNCHANGED saving
          ELSE /\ saving' = <<model>>
               /\ UNCHANGED mpc
    /\ UNCHANGED <<lpc, ipc, apc, held, model, actor_model, copied, seen,
                   learner_queue, learner_closed, inference_batcher,
                   inference_closed, produced, requested, stats, initial_step,
                   step_read, completed>>
    /\ UNCHANGED <<disable_checkpoint, interrupted, checkpoint_file, writes,
                   periodic, final, joined, replay_closed>>
    /\ UNCHANGED <<bufVars, shapeVars, startVars, dVars, ownVars>>

\* lines 746-754: the optimizer and scheduler states, stats and flags are
\* serialised and the record is at checkpointpath
CheckpointWrite ==
    /\ mpc \in {"checkpoint", "periodic"}
    /\ saving # <<>>
    /\ checkpoint_file' = CheckpointRecord(SavedObjects(saving[1]))
    /\ writes' = writes + 1
    /\ final' = (final \/ mpc = "checkpoint")
    /\ saving' = <<>>
    /\ mpc' = CheckpointReturn(mpc)
    /\ UNCHANGED <<lpc, ipc, apc, held, model, actor_model, copied, seen,
                   learner_queue, learner_closed, inference_batcher,
                   inference_closed, produced, requested, stats, initial_step,
                   step_read, completed>>
    /\ UNCHANGED <<disable_checkpoint, interrupted, periodic, joined,
                   replay_closed>>
    /\ UNCHANGED <<bufVars, shapeVars, startVars, dVars, ownVars>>

\* lines 786-787: KeyboardInterrupt is raised in the main thread inside the
\* try block; a torch.save under way leaves the old or an unfinished record
MonitorInterrupt ==
    /\ mpc \in {"poll", "sleep", "periodic"}
    /\ interrupted' = TRUE
    /\ checkpoint_file' \in
           IF saving = <<>> THEN {checkpoint_file}
                            ELSE {checkpoint_file, PartialFile}
    /\ saving' = <<>>
    /\ mpc' = AfterExcept
    /\ UNCHANGED <<lpc, ipc, apc, held, model, actor_model, copied, seen,
                   learner_queue, learner_closed, inference_batcher,
                   inference_closed, produced, requested, stats, initial_step,
                   step_read, completed>>
    /\ UNCHANGED <<disable_checkpoint, writes, periodic, final, joined,
                   replay_closed>>
    /\ UNCHANGED <<bufVars, shapeVars, startVars, dVars, ownVars>>

\* line 793: inference_batcher.close()
MonitorCloseInference ==
    /\ mpc = "close_inference"
    /\ inference_closed' = TRUE
    /\ mpc' = ShutdownAfter("close_inference")
    /\ UNCHANGED <<lpc, ipc, apc, held, model, actor_model, copied, seen,
                   learner_queue, learner_closed, inference_batcher, produced,
                   requested, stats, initial_step, step_read, completed>>
    /\ UNCHANGED runVars
    /\ UNCHANGED <<bufVars, shapeVars, startVars, dVars, ownVars>>

\* line 794: learner_queue.close()
MonitorCloseLearner ==
    /\ mpc = "close_learner"
    /\ learner_closed' = TRUE
    /\ mpc' = ShutdownAfter("close_learner")
    /\ UNCHANGED <<lpc, ipc, apc, held, model, actor_model, copied, seen,
                   learner_queue, inference_batcher, inference_closed,
                   produced, requested, stats, initial_step, step_read,
                   completed>>
    /\ UNCHANGED runVars
    /\ UNCHANGED <<bufVars, shapeVars, startVars, dVars, ownVars>>

\* line 796: actorpool_thread.join() returns when that thread has ended
MonitorJoinActor ==
    /\ mpc = "join_actor"
    /\ Terminated(<<"actorpool", 0>>)
    /\ joined' = Append(joined, <<"actorpool", 0>>)
    /\ mpc' = ShutdownAfter("join_actor")
    /\ UNCHANGED <<lpc, ipc, apc, held, model, actor_model, copied, seen,
                   learner_queue, learner_closed, inference_batcher,
                   inference_closed, produced, requested, stats, initial_step,
                   step_read, completed>>
    /\ UNCHANGED <<disable_checkpoint, interrupted, saving, checkpoint_file,
                   writes, periodic, final, replay_closed>>
    /\ UNCHANGED <<bufVars, shapeVars, startVars, dVars, ownVars>>

\* the threads of line 733 that are joined
JoinedOfThreads == {k \in 1..Len(Threads) : Threads[k] \in Range(joined)}

\* lines 798-799: for t in threads: t.join(), one thread per step
MonitorJoinThread ==
    /\ mpc = "join_threads"
    /\ LET k == Cardinality(JoinedOfThreads) + 1
       IN  /\ Terminated(Threads[k])
           /\ joined' = Append(joined, Threads[k])
           /\ mpc' = IF k = Len(Threads)
                        THEN ShutdownAfter("join_threads")
                        ELSE "join_threads"
    /\ UNCHANGED <<lpc, ipc, apc, held, model, actor_model, copied, seen,
                   learner_queue, learner_closed, inference_batcher,
                   inference_closed, produced, requested, stats, initial_step,
                   step_read, completed>>
    /\ UNCHANGED <<disable_checkpoint, interrupted, saving, checkpoint_file,
                   writes, periodic, final, replay_closed>>
    /\ UNCHANGED <<bufVars, shapeVars, startVars, dVars, ownVars>>

\* lines 645-653: actors.run() raises; run() logs and re-raises, the
\* actorpool thread ends
ActorRaise ==
    /\ apc = "run"
    /\ apc' = "failed"
    /\ learner_closed' = AfterRaise(learner_closed)
    /\ inference_closed' = AfterRaise(inference_closed)
    /\ UNCHANGED <<lpc, ipc, mpc, held, model, actor_model, copied, seen,
                   learner_queue, inference_batcher, produced, requested,
                   stats, initial_step, step_read, completed>>
    /\ UNCHANGED runVars
    /\ UNCHANGED <<bufVars, shapeVars, startVars, dVars, ownVars>>

\* lines 290-409: a statement between lock.acquire() and lock.release()
\* raises; the thread ends and line 410 is not reached
LearnFail(t) ==
    /\ lpc[t] \in LockedRegion
    /\ lpc' = [lpc EXCEPT ![t] = "failed"]
    /\ copied' = [copied EXCEPT ![t] = 0]
    /\ step_read' = [step_read EXCEPT ![t] = 0]
    /\ UNCHANGED <<ipc, apc, mpc, held, model, actor_model, seen,
                   learner_queue, learner_closed, inference_batcher,
                   inference_closed, produced, requested, stats, initial_step,
                   completed>>
    /\ UNCHANGED runVars
    /\ UNCHANGED <<bufVars, shapeVars, startVars, dVars, ownVars>>

(***************************************************************************)
(* learn_D: the replay part of one iteration, lines 430-477.  The batches  *)
(* of the replay queue hold 1..MaxRequest frames (lines 522-529).          *)
(***************************************************************************)
\* mutant of FillMore: the buffer is never refilled
FillNever(length, batch_size) == FALSE

\* mutant of FillMore: the fill loop is never left
FillAlways(length, batch_size) == TRUE

\* line 453: while len(replay_buffer) < flags.batch_size
FillMore(length, batch_size) == length < batch_size

\* lines 430-448: the next real batch, its loss and gradients
LearnDReal ==
    /\ dpc = "real"
    /\ dpc' = "pull"
    /\ pulls' = 0
    /\ UNCHANGED normalised
    /\ UNCHANGED <<bufVars, shapeVars, threadVars, startVars, runVars, ownVars>>

\* lines 450-451: obs = next(replay_queue), which blocks until the queue has
\* a batch, and replay_buffer.push(obs["canvas"].squeeze(0)): the frames are
\* stored as they came from the queue
LearnDPull(n) ==
    /\ dpc = "pull"
    /\ Push(n)
    /\ dpc' = "fill"
    /\ pulls' = pulls + 1
    /\ UNCHANGED normalised

\* line 453: the test of the fill loop
LearnDFill ==
    /\ dpc = "fill"
    /\ dpc' = IF FillMore(Len(buffer), BatchSize) THEN "pull_more" ELSE "sample"
    /\ UNCHANGED <<pulls, normalised>>
    /\ UNCHANGED <<bufVars, shapeVars, threadVars, startVars, runVars, ownVars>>

\* lines 454-456: the body of the fill loop,
\* replay_buffer.push(((obs["canvas"] - 0.5) / 0.5).squeeze(0)): the frames
\* are stored normalised
LearnDPullMore(n) ==
    /\ dpc = "pull_more"
    /\ Push(n)
    /\ dpc' = "fill"
    /\ pulls' = pulls + 1
    /\ normalised' = normalised \cup Range(Frames(n))

\* replay_buffer.push of a batch of a feed that never runs dry: the frames
\* of every batch are numbered from 1 and the history of the pushes is not
\* kept, so that the learner can pull for ever
Feed(n) ==
    /\ buffer' = PushBuffer(buffer, position, capacity, [k \in 1..n |-> k])
    /\ position' = PushPosition(position, capacity, [k \in 1..n |-> k])
    /\ slots' = <<>>
    /\ fake' = <<>>
    /\ UNCHANGED <<capacity, pushed, request, maxRequest, prePosition>>
    /\ UNCHANGED <<shapeVars, threadVars, startVars, runVars, ownVars>>

\* lines 450-451 with the feed that never runs dry
LearnDFeedPull(n) ==
    /\ dpc = "pull"
    /\ Feed(n)
    /\ dpc' = "fill"
    /\ UNCHANGED <<pulls, normalised>>

\* lines 454-456 with the feed that never runs dry
LearnDFeedPullMore(n) ==
    /\ dpc = "pull_more"
    /\ Feed(n)
    /\ dpc' = "fill"
    /\ UNCHANGED <<pulls, normalised>>

\* line 458: replay_buffer.sample(flags.batch_size); random.sample raises
\* ValueError when the buffer holds fewer frames
LearnDSample ==
    /\ dpc = "sample"
    /\ IF BatchSize <= Len(buffer)
          THEN /\ Sample(BatchSize)
               /\ dpc' = "step"
          ELSE /\ dpc' = "raised"
               /\ UNCHANGED <<bufVars, shapeVars, threadVars, startVars, runVars, ownVars>>
    /\ UNCHANGED <<pulls, normalised>>

\* lines 462-477: the fake loss, optimizer.step(), scheduler.step() and the
\* load of D_eval; the stats of lines 479-483 are LearnDStats
LearnDStep ==
    /\ dpc = "step"
    /\ dpc' = "real"
    /\ UNCHANGED <<pulls, normalised>>
    /\ UNCHANGED <<bufVars, shapeVars, threadVars, startVars, runVars, ownVars>>

(***************************************************************************)
(* train(): the objects each thread is given (lines 685-729) and what the  *)
(* thread functions do with their parameters.                              *)
(***************************************************************************)
\* lines 689-699: the arguments of learn, by parameter (lines 258-268)
LearnArgs ==
    [model |-> "model", actor_model |-> "actor_model", D |-> "D_eval",
     optimizer |-> "optimizer", scheduler |-> "scheduler", stats |-> "stats"]

\* mutant of InferenceArgs: the inference threads are given the training
\* policy
InferenceArgsTraining == [model |-> "model"]

\* line 708: the arguments of inference, by parameter (line 225)
InferenceArgs == [model |-> "actor_model"]

\* lines 716-727: the arguments of learn_D, by parameter (lines 417-428)
LearnDArgs ==
    [replay_buffer |-> "replay_buffer", D |-> "D", D_eval |-> "D_eval",
     optimizer |-> "D_optimizer", scheduler |-> "D_scheduler",
     stats |-> "stats"]

\* learn, one iteration: D(...) under no_grad (lines 293-313), model(...)
\* (line 324), backward and optimizer.step() (lines 374-378),
\* scheduler.step() (line 379), the load of actor_model from model (line
\* 381), the stats (lines 390-407)
LearnAccesses ==
    << <<"D", "read">>, <<"model", "read">>, <<"model", "write">>,
       <<"optimizer", "write">>, <<"scheduler", "write">>,
       <<"model", "read">>, <<"actor_model", "write">>,
       <<"stats", "write">> >>

\* inference, one iteration: model(...) under no_grad (line 238)
InferenceAccesses == << <<"model", "read">> >>

\* learn_D, one iteration: D(real) (line 438), the pushes (lines 451, 455),
\* the sample (line 458), D(fake), backward and optimizer.step() (lines
\* 462-474), scheduler.step() (line 475), the load of D_eval from D (line
\* 477), the stats (lines 479-483)
LearnDAccesses ==
    << <<"D", "read">>, <<"replay_buffer", "write">>,
       <<"replay_buffer", "read">>, <<"D", "write">>,
       <<"optimizer", "write">>, <<"scheduler", "write">>,
       <<"D", "read">>, <<"D_eval", "write">>, <<"stats", "write">> >>

\* the threads of lines 685-729
OwnThreads == Range(ThreadList)

\* the place in list of the access thread does next
NextAccess(thread, list) == (opos[thread] % Len(list)) + 1

\* that access, to the object the parameter is bound to
Accessed(thread, args, list) ==
    LET a == list[NextAccess(thread, list)]
    IN  <<thread, args[a[1]], a[2]>>

\* learner thread t does the next access of its iteration
LearnAccess(t) ==
    /\ opos' = [opos EXCEPT ![<<"learner", t>>] =
                   NextAccess(<<"learner", t>>, LearnAccesses)]
    /\ accesses' = accesses
           \cup {Accessed(<<"learner", t>>, LearnArgs, LearnAccesses)}
    /\ UNCHANGED <<bufVars, shapeVars, threadVars, startVars, dVars, runVars>>

\* inference thread i does the access of its iteration
InferenceAccess(i) ==
    /\ opos' = [opos EXCEPT ![<<"inference", i>>] =
                   NextAccess(<<"inference", i>>, InferenceAccesses)]
    /\ accesses' = accesses
           \cup {Accessed(<<"inference", i>>, InferenceArgs, InferenceAccesses)}
    /\ UNCHANGED <<bufVars, shapeVars, threadVars, startVars, dVars, runVars>>

\* the discriminator thread does the next access of its iteration
LearnDAccess ==
    /\ opos' = [opos EXCEPT ![<<"d_learner", 0>>] =
                   NextAccess(<<"d_learner", 0>>, LearnDAccesses)]
    /\ accesses' = accesses
           \cup {Accessed(<<"d_learner", 0>>, LearnDArgs, LearnDAccesses)}
    /\ UNCHANGED <<bufVars, shapeVars, threadVars, startVars, dVars, runVars>>

(***************************************************************************)
(* Specifications.                                                         *)
(***************************************************************************)
\* the buffer before it is used
IdleBuffer ==
    /\ capacity = 1
    /\ buffer = <<>>
    /\ position = 0
    /\ pushed = 0
    /\ request = 0
    /\ maxRequest = 0
    /\ prePosition = 0
    /\ slots = <<>>
    /\ fake = <<>>

\* no batch taken off the learner queue yet
IdleShape ==
    /\ use_tca = FALSE
    /\ done = <<>>
    /\ reward = <<>>
    /\ inReward = <<>>
    /\ final_render_exists = FALSE
    /\ r = <<>>
    /\ vtraceRewards = <<>>
    /\ vtraceArgs = <<>>
    /\ mean_discriminator_returns = <<>>
    /\ spc = "idle"

\* no thread started
IdleThreads ==
    /\ lpc = [t \in Learners |-> "idle"]
    /\ ipc = [i \in InferenceThreads |-> "idle"]
    /\ apc = "idle"
    /\ mpc = "idle"
    /\ held = {}
    /\ model = 0
    /\ actor_model = [k \in 1..NumParams |-> 0]
    /\ copied = [t \in Learners |-> 0]
    /\ seen = [i \in InferenceThreads |-> <<>>]
    /\ learner_queue = 0
    /\ learner_closed = FALSE
    /\ inference_batcher = 0
    /\ inference_closed = FALSE
    /\ produced = 0
    /\ requested = 0
    /\ stats = [step |-> 0, D_loss |-> 0]
    /\ initial_step = 0
    /\ step_read = [t \in Learners |-> 0]
    /\ completed = 0

\* train() up to line 760: stats is {} or what the checkpoint held (lines
\* 665-679), the serving copy is loaded from the training copy (line 682),
\* the threads are started (lines 731-736)
InitThreads ==
    /\ lpc = [t \in Learners |-> "next"]
    /\ ipc = [i \in InferenceThreads |-> "next"]
    /\ apc = "run"
    /\ mpc = "poll"
    /\ held = {}
    /\ model = 0
    /\ actor_model = [k \in 1..NumParams |-> 0]
    /\ copied = [t \in Learners |-> 0]
    /\ seen = [i \in InferenceThreads |-> <<>>]
    /\ learner_queue = 0
    /\ learner_closed = FALSE
    /\ inference_batcher = 0
    /\ inference_closed = FALSE
    /\ produced = 0
    /\ requested = 0
    /\ initial_step \in {0, StepsPerBatch}
    /\ stats = [step |-> initial_step, D_loss |-> 0]
    /\ step_read = [t \in Learners |-> 0]
    /\ completed = 0

\* a batch off the learner queue (lines 270-278)
InitShape ==
    /\ use_tca \in BOOLEAN
    /\ done \in [Steps -> BOOLEAN]
    /\ reward \in [Steps -> 0..MaxReward]
    /\ inReward = reward
    /\ final_render_exists = FALSE
    /\ r = <<>>
    /\ vtraceRewards = <<>>
    /\ vtraceArgs = <<>>
    /\ mean_discriminator_returns = <<>>
    /\ spc = "shape"

\* train() is not running
IdleStart ==
    /\ tpc = "idle"
    /\ ckpt = NoFile
    /\ saved = <<>>
    /\ objects = <<>>
    /\ restored = FALSE
    /\ started = <<>>

\* train() at line 667: the objects are freshly built (lines 582-665);
\* checkpointpath holds no record or the record an earlier run saved
InitStart ==
    /\ tpc = StartupOrder[1]
    /\ saved \in [Components -> 1..MaxSaved]
    /\ ckpt \in {NoFile, CheckpointRecord(saved)}
    /\ objects = [c \in Components \cup Copies |-> 0]
    /\ restored = FALSE
    /\ started = <<>>

\* train() has not reached the monitor loop
IdleRun ==
    /\ disable_checkpoint = TRUE
    /\ interrupted = FALSE
    /\ saving = <<>>
    /\ checkpoint_file = NoFile
    /\ writes = 0
    /\ periodic = 0
    /\ final = FALSE
    /\ joined = <<>>
    /\ replay_closed = FALSE

\* train() at line 759: the record at checkpointpath is the one the stats
\* were restored from, if there was one (lines 668-679)
InitRun(disabled) ==
    /\ disable_checkpoint \in disabled
    /\ interrupted = FALSE
    /\ saving = <<>>
    /\ checkpoint_file =
           IF initial_step = 0 THEN NoFile
                               ELSE CheckpointRecord(SavedObjects(model))
    /\ writes = 0
    /\ periodic = 0
    /\ final = FALSE
    /\ joined = <<>>
    /\ replay_closed = FALSE

\* the threads are not followed object by object
IdleOwn ==
    /\ opos = <<>>
    /\ accesses = {}

\* the threads are started (line 736), none has touched an object
InitOwn ==
    /\ opos = [thread \in OwnThreads |-> 0]
    /\ accesses = {}

\* learn_D is not running
IdleD ==
    /\ dpc = "idle"
    /\ pulls = 0
    /\ normalised = {}

\* learn_D at line 430
InitLearnD ==
    /\ dpc = "real"
    /\ pulls = 0
    /\ normalised = {}

InitB ==
    InitBuffer /\ IdleShape /\ IdleThreads /\ IdleStart /\ IdleD /\ IdleRun
    /\ IdleOwn

NextBuffer ==
    \/ \E n \in 1..MaxRequest : Push(n) /\ UNCHANGED dVars
    \/ \E k \in 1..MaxBatch : Sample(k) /\ UNCHANGED dVars

SpecBuffer == InitB /\ [][NextBuffer]_vars

InitS ==
    IdleBuffer /\ InitShape /\ IdleThreads /\ IdleStart /\ IdleD /\ IdleRun
    /\ IdleOwn

NextShape ==
    \/ ShapeReward
    \/ EnvOutputsAddReward
    \/ VTraceFromLogits
    \/ LearnStats

SpecShape == InitS /\ [][NextShape]_vars

\* a run with --disable_checkpoint, without interrupt and exception
Init ==
    IdleBuffer /\ IdleShape /\ InitThreads /\ IdleStart /\ IdleD
    /\ InitRun({TRUE}) /\ IdleOwn

Next ==
    \/ \E t \in Learners :
        \/ LearnNext(t)
        \/ LearnExit(t)
        \/ LearnAcquire(t)
        \/ LearnUpdate(t)
        \/ LearnPublish(t)
        \/ LearnGetStep(t)
        \/ LearnSetStep(t)
        \/ LearnRelease(t)
    \/ \E i \in InferenceThreads :
        \/ InferenceNext(i)
        \/ InferenceExit(i)
        \/ InferenceAcquire(i)
        \/ InferenceForward(i)
        \/ InferenceRelease(i)
        \/ InferenceSetOutputs(i)
    \/ LearnDStats
    \/ ActorRequest
    \/ ActorEnqueue
    \/ ActorStop
    \/ MonitorPoll
    \/ MonitorWake
    \/ MonitorCloseInference
    \/ CheckpointBegin
    \/ MonitorCloseInference
    \/ MonitorCloseLearner
    \/ MonitorJoinActor
    \/ MonitorJoinThread

Spec == Init /\ [][Next]_vars

\* a run with or without checkpoints, in which the interrupt can come and
\* the actorpool thread and the learner threads can raise; the inference
\* threads wait on the batcher until it is closed (their requests are
\* followed under Spec)
InitR ==
    IdleBuffer /\ IdleShape /\ InitThreads /\ IdleStart /\ IdleD
    /\ InitRun(BOOLEAN) /\ IdleOwn

NextRun ==
    \/ \E t \in Learners :
        \/ LearnNext(t)
        \/ LearnExit(t)
        \/ LearnAcquire(t)
        \/ LearnUpdate(t)
        \/ LearnPublish(t)
        \/ LearnGetStep(t)
        \/ LearnSetStep(t)
        \/ LearnRelease(t)
        \/ LearnFail(t)
    \/ \E i \in InferenceThreads : InferenceExit(i)
    \/ ActorEnqueue
    \/ ActorStop
    \/ ActorRaise
    \/ MonitorPoll
    \/ MonitorWake
    \/ MonitorWakeCheckpoint
    \/ CheckpointBegin
    \/ CheckpointWrite
    \/ MonitorInterrupt
    \/ MonitorCloseInference
    \/ MonitorCloseLearner
    \/ MonitorJoinActor
    \/ MonitorJoinThread

SpecRun == InitR /\ [][NextRun]_vars

InitT ==
    IdleBuffer /\ IdleShape /\ IdleThreads /\ InitStart /\ IdleD /\ IdleRun
    /\ IdleOwn

NextStart ==
    \/ Restore
    \/ Sync
    \/ StartActor
    \/ StartThread

SpecStart == InitT /\ [][NextStart]_vars

InitD ==
    InitBuffer /\ IdleShape /\ IdleThreads /\ IdleStart /\ InitLearnD /\ IdleRun
    /\ IdleOwn

NextD ==
    \/ LearnDReal
    \/ \E n \in 1..MaxRequest : LearnDPull(n)
    \/ LearnDFill
    \/ \E n \in 1..MaxRequest : LearnDPullMore(n)
    \/ LearnDSample
    \/ LearnDStep

SpecD == InitD /\ [][NextD]_vars

\* learn_D with a replay queue that delivers a batch to every next(): the
\* thread is scheduled again and again, and next() returns every time
NextDFeed ==
    \/ LearnDReal
    \/ \E n \in 1..MaxRequest : LearnDFeedPull(n)
    \/ LearnDFill
    \/ \E n \in 1..MaxRequest : LearnDFeedPullMore(n)
    \/ LearnDSample
    \/ LearnDStep

SpecDFeed == InitD /\ [][NextDFeed]_vars /\ WF_vars(NextDFeed)

InitO ==
    IdleBuffer /\ IdleShape /\ IdleThreads /\ IdleStart /\ IdleD /\ IdleRun
    /\ InitOwn

NextOwn ==
    \/ \E t \in Learners : LearnAccess(t)
    \/ \E i \in InferenceThreads : InferenceAccess(i)
    \/ LearnDAccess

SpecOwn == InitO /\ [][NextOwn]_vars

(***************************************************************************)
(* Properties of the ReplayBuffer, checked under SpecBuffer.               *)
(***************************************************************************)
\* the k most recently pushed frames
MostRecent(k) == (pushed - k + 1)..pushed

Count(s, v) == Cardinality({i \in 1..Len(s) : s[i] = v})

\* C1: after every push, len(buffer) is min(capacity, number of frames
\* pushed so far), whatever the number of frames each push carried.
C1_LenIsMinCapacityPushed == Len(buffer) = Min(capacity, pushed)

\* C2: as long as no push carried more than capacity frames, the buffer
\* holds exactly the min(capacity, pushed) most recently pushed frames, each
\* once.
C2_FifoRetention ==
    maxRequest <= capacity =>
        /\ Len(buffer) = Min(capacity, pushed)
        /\ \A f \in MostRecent(Min(capacity, pushed)) : Count(buffer, f) = 1

\* C2 witness: capacity + 1 single-frame pushes have been made, the first
\* frame is gone and the last capacity frames are there.
C2_Witness ==
    /\ maxRequest = 1
    /\ capacity >= 2
    /\ pushed = capacity + 1
    /\ 1 \notin Range(buffer)
    /\ Range(buffer) = 2..(capacity + 1)

\* C3: after a push of more than capacity frames the buffer holds exactly
\* the capacity most recent frames of that push and nothing else.
C3_OversizedPushKeepsLastCapacity ==
    request > capacity =>
        /\ Len(buffer) = capacity
        /\ Range(buffer) = MostRecent(capacity)

\* C4: the write position stays in 0..capacity-1; a push of n frames from
\* position p leaves it at (p + n) mod capacity; and when n exceeds the room
\* capacity - p, the remainder of the frames lies from index 0 on and the
\* head part lies at the indices p..capacity-1 the remainder did not reach.
C4_PositionAndSplit ==
    /\ 0 <= position
    /\ position < capacity
    /\ request > 0 => position = (prePosition + request) % capacity
    /\ request > capacity - prePosition =>
        LET free  == capacity - prePosition
            rest  == request - free
            first == pushed - request + 1
        IN  /\ Len(buffer) >= Min(rest, capacity)
            /\ \A j \in 0..(rest - 1) :
                   j < Len(buffer) => buffer[j + 1] = first + free + j
            /\ \A j \in prePosition..(capacity - 1) :
                   j >= rest => buffer[j + 1] = first + (j - prePosition)

\* C4 witness: a push that did not fit before the end of the store was split
\* in a head part and a remainder.
C4_Witness ==
    /\ prePosition > 0
    /\ request > capacity - prePosition
    /\ request <= capacity
    /\ position = request - (capacity - prePosition)

\* C5: sample(k) returns the frames of k different slots of the list and
\* leaves the list and the write position as they were; a sample of the whole
\* list is a permutation of it.
C5_SampleDistinctAndPure ==
    [][fake' # <<>> =>
        /\ buffer' = buffer
        /\ position' = position
        /\ capacity' = capacity
        /\ Len(fake') = Len(slots')
        /\ Len(fake') <= Len(buffer)
        /\ \A a \in 1..Len(slots') :
               /\ slots'[a] \in 1..Len(buffer)
               /\ fake'[a] = buffer[slots'[a]]
        /\ \A a, b \in 1..Len(slots') : a # b => slots'[a] # slots'[b]
        /\ Len(fake') = Len(buffer) =>
               \A f \in Range(buffer) \cup Range(fake') :
                   Count(fake', f) = Count(buffer, f)
    ]_vars

\* C5 witness: a sample of the whole list that is not in list order.
C5_Witness ==
    /\ maxRequest <= capacity
    /\ Len(buffer) >= 2
    /\ Len(fake) = Len(buffer)
    /\ slots[1] # 1

(***************************************************************************)
(* Properties of the reward channel, checked under SpecShape.              *)
(***************************************************************************)
\* C9: with use_tca false and no episode end in done[1:], the rewards given
\* to V-trace are the rewards of the batch at the timesteps 1..T, value for
\* value.
C9_RewardsPassThrough ==
    (spc = "loss" /\ ~use_tca /\ ~AnyDone(done)) =>
        vtraceRewards = FromStepOne(inReward)

\* the discriminator reward was added to the reward tensor in this iteration
\* (lines 304, 308, 314)
ShapingRan == use_tca \/ AnyDone(done)

\* C21: when the statistics of an iteration are written,
\* stats["mean_discriminator_returns"] is the mean of the discriminator
\* reward r if the reward was shaped in the iteration (use_tca, or an episode
\* end in done[1:]) and None if the rewards passed through.
C21_MeanDiscriminatorReturns ==
    spc = "stats" =>
        /\ ShapingRan => mean_discriminator_returns = Mean(r)
        /\ ~ShapingRan => mean_discriminator_returns = <<>>

\* C22: the target logits and the values given to V-trace are those of the
\* timesteps 0..T-1, the actions, rewards, discounts and behaviour logits
\* those of the timesteps 1..T, all of length T; the bootstrap value is the
\* value of timestep T, which the value sequence no longer holds.
C22_ShiftAlignment ==
    spc \in {"loss", "stats"} =>
        /\ vtraceArgs.values = [k \in 1..UnrollLength |-> k - 1]
        /\ vtraceArgs.target_policy_logits = vtraceArgs.values
        /\ vtraceArgs.actions = [k \in 1..UnrollLength |-> k]
        /\ vtraceArgs.rewards = vtraceArgs.actions
        /\ vtraceArgs.discounts = vtraceArgs.actions
        /\ vtraceArgs.behavior_policy_logits = vtraceArgs.actions
        /\ vtraceRewards = FromStepOne(reward)
        /\ Len(vtraceRewards) = Len(vtraceArgs.values)
        /\ vtraceArgs.bootstrap_value = UnrollLength
        /\ vtraceArgs.bootstrap_value \notin Range(vtraceArgs.values)

\* C22 as stated: the bootstrap value is the value of the last timestep the
\* value sequence given to V-trace holds.
C22_BootstrapIsLastRetained ==
    spc \in {"loss", "stats"} =>
        vtraceArgs.bootstrap_value = Last(vtraceArgs.values)

\* C22 witness: V-trace has been given its arguments for a batch with an
\* episode end, with the bootstrap value of timestep T.
C22_Witness ==
    /\ spc = "loss"
    /\ AnyDone(done)
    /\ Len(vtraceArgs.values) = UnrollLength
    /\ vtraceArgs.bootstrap_value = UnrollLength

(***************************************************************************)
(* Properties of the threads, checked under Spec.                          *)
(***************************************************************************)
\* the learner threads between lock.acquire() (line 289) and lock.release()
\* (line 410)
Learning ==
    {t \in Learners : lpc[t] \in {"update", "publish", "get_step", "set_step",
                                   "release"}}

\* the inference threads inside `with lock` (lines 237-238)
Forwarding == {i \in InferenceThreads : ipc[i] = "forward"}

\* C6: at most one learner thread is between lock.acquire() and
\* lock.release(), and every learner thread uses the same lock object.
C6_OneLearnerAtATime ==
    /\ Cardinality(Learning) <= 1
    /\ \A t, u \in Learners : LearnLock(t) = LearnLock(u)
    /\ \A t \in Learning : LearnLock(t) \in held

\* C6 witness: one learner thread is publishing while the other one waits
\* for the lock with its batch.
C6_Witness ==
    \E t, u \in Learners :
        /\ lpc[t] = "publish"
        /\ lpc[u] = "acquire"

\* C7: a forward pass of an inference thread reads the weights of one
\* completed publish (or of the initial load): all the parameters it has
\* read are of the same version.
C7_ForwardReadsOnePublish ==
    \A i \in InferenceThreads :
        \A a, b \in 1..Len(seen[i]) : seen[i][a] = seen[i][b]

\* C8: at most one inference thread runs the forward pass, all inference
\* threads using one lock.
C8_OneForwardAtATime ==
    /\ Cardinality(Forwarding) <= 1
    /\ \A i, j \in InferenceThreads : InferenceLock(i) = InferenceLock(j)
    /\ \A i \in Forwarding : InferenceLock(i) \in held

\* C8 witness: one inference thread is in its forward pass while another one
\* delivers its outputs, outside the lock.
C8_Witness ==
    \E i, j \in InferenceThreads :
        /\ ipc[i] = "forward"
        /\ ipc[j] = "set_outputs"

\* C10: stats["step"] is the initial step count plus unroll_length *
\* batch_size for every learner iteration that has written it: none of the
\* additions is lost.
C10_StepCountsEveryIteration ==
    stats.step = initial_step
                 + (completed + Cardinality({t \in Learners : lpc[t] = "release"}))
                   * (UnrollLength * BatchSize)

\* C10 witness: two learner iterations have completed on top of a restored
\* step count while the discriminator learner wrote its stats.
C10_Witness ==
    /\ completed = 2
    /\ initial_step > 0
    /\ stats.D_loss > 0
    /\ stats.step = initial_step + 2 * UnrollLength * BatchSize

(***************************************************************************)
(* Properties of the start-up, checked under SpecStart.                    *)
(***************************************************************************)
\* C12: after the restore every component holds the state that was saved
\* for that same component.
C12_RestoreRoundTrip ==
    restored => \A c \in Components : objects[c] = saved[c]

C17_PullBeforeSample ==
    /\ dpc \in {"fill", "pull_more", "sample", "step"} => pulls >= 1
    /\ dpc = "pull_more" => Len(buffer) < BatchSize
    /\ dpc = "sample" => Len(buffer) >= BatchSize
    /\ dpc = "step" => Len(fake) = BatchSize
    /\ dpc # "raised"

\* C17 witness: an iteration whose fill loop pulled again has sampled.
C17_Witness ==
    /\ dpc = "step"
    /\ pulls >= 2
    /\ Len(fake) = BatchSize

C26_SamePreprocessing ==
    \A a, b \in Range(buffer) \ {None} :
        (a \in normalised) <=> (b \in normalised)

(***************************************************************************)
(* Properties of the monitor loop, the checkpoints and the shutdown,       *)
(* checked under SpecRun.                                                  *)
(***************************************************************************)
\* the main thread is in the loop of lines 761-785
InLoop == mpc \in {"poll", "sleep", "periodic"}

\* the keys of the record of lines 743-752
CheckpointKeys ==
    {"model_state_dict", "D_state_dict", "optimizer_state_dict",
     "D_optimizer_state_dict", "scheduler_state_dict",
     "D_scheduler_state_dict", "stats", "flags"}

C13_MonitorExit ==
    /\ [][(InLoop /\ ~InLoop') =>
            \/ mpc = "poll" /\ stats.step >= TotalSteps /\ ~interrupted'
            \/ ~interrupted /\ interrupted']_vars
    /\ [][(mpc = "poll" /\ stats.step >= TotalSteps /\ mpc' # mpc) =>
            ~InLoop']_vars
    /\ []((~InLoop /\ ~interrupted) => stats.step >= TotalSteps)

\* C13 witness: the loop was left, without interrupt, after learner
\* iterations of this run.
C13_Witness ==
    /\ mpc = "checkpoint"
    /\ ~interrupted
    /\ completed >= 1
    /\ stats.step >= TotalSteps

\* a step of learner thread t, of inference thread i
LearnerStep(t) ==
    \/ LearnNext(t)
    \/ LearnExit(t)
    \/ LearnAcquire(t)
    \/ LearnUpdate(t)
    \/ LearnPublish(t)
    \/ LearnGetStep(t)
    \/ LearnSetStep(t)
    \/ LearnRelease(t)

\* C14: once both queues are closed, the learner and inference threads run
\* on until each of them has terminated: when none of them can take a step
\* any more, all have terminated (so that the joins return).
C14_ThreadsTerminateAfterClose ==
    (/\ learner_closed
     /\ inference_closed
     /\ \A t \in Learners : ~ENABLED LearnerStep(t)
     /\ \A i \in InferenceThreads : ~ENABLED InferenceExit(i))
    => \A k \in 1..Len(Threads) : Terminated(Threads[k])

\* C15: with checkpointing enabled, no interrupt and no periodic checkpoint,
\* nothing is written before the loop is left, and after the final
\* checkpoint exactly one record was written, with all eight keys and stats
\* whose step is >= total_steps.
C15_OneCheckpointAtTarget ==
    (~disable_checkpoint /\ ~interrupted /\ periodic = 0) =>
        /\ (InLoop \/ mpc = "checkpoint") => writes = 0
        /\ (~InLoop /\ mpc # "checkpoint") =>
              /\ writes = 1
              /\ final
              /\ CheckpointKeys \subseteq DOMAIN checkpoint_file
              /\ checkpoint_file.stats.step >= TotalSteps

\* C15 witness: such a run has shut down.
C15_Witness ==
    /\ ~disable_checkpoint
    /\ ~interrupted
    /\ periodic = 0
    /\ mpc = "done"
    /\ writes = 1
    /\ completed >= 1

C20_ShutdownOrder ==
    /\ inference_closed =>
          /\ saving = <<>>
          /\ mpc \in {"close_learner", "join_actor", "join_threads", "done"}
    /\ learner_closed =>
          /\ inference_closed
          /\ mpc \in {"join_actor", "join_threads", "done"}
    /\ joined # <<>> =>
          /\ learner_closed
          /\ joined[1] = <<"actorpool", 0>>
          /\ \A k \in 2..Len(joined) : joined[k] = Threads[k - 1]
    /\ mpc = "done" => Len(joined) = 1 + Len(Threads)
    /\ <<"d_learner", 0>> \notin Range(joined)
    /\ ~replay_closed

\* C20 witness: the shutdown after a final checkpoint is complete.
C20_Witness ==
    /\ mpc = "done"
    /\ final
    /\ Len(joined) = 1 + Len(Threads)

\* C20, the last part: a learner is inside its locked region while the final
\* checkpoint is being written.
C20_LearnerRunsDuringFinalWrite ==
    /\ mpc = "checkpoint"
    /\ saving # <<>>
    /\ \E t \in Learners : lpc[t] \in LockedRegion

(***************************************************************************)
(* Properties of the objects the threads share, checked under SpecOwn.     *)
(***************************************************************************)
\* the objects of the policy side and of the discriminator side
PolicyObjects == {"model", "optimizer", "scheduler", "actor_model"}

DiscriminatorObjects ==
    {"D", "D_optimizer", "D_scheduler", "D_eval", "replay_buffer"}

\* C19: an inference thread only reads the serving copy; the training
\* policy, its optimizer and scheduler and the serving copy are written by
\* learner threads only; the training discriminator, its optimizer and
\* scheduler, the eval copy and the ReplayBuffer are written by the
\* discriminator thread only; of the discriminator side a learner thread
\* only reads the eval copy.
C19_Ownership ==
    \A a \in accesses :
        /\ a[1][1] = "inference" => (a[2] = "actor_model" /\ a[3] = "read")
        /\ (a[3] = "write" /\ a[2] \in PolicyObjects) => a[1][1] = "learner"
        /\ (a[3] = "write" /\ a[2] \in DiscriminatorObjects) =>
              a[1][1] = "d_learner"
        /\ (a[1][1] = "learner" /\ a[2] \in DiscriminatorObjects) =>
              (a[2] = "D_eval" /\ a[3] = "read")

\* C19 witness: every thread has done a whole iteration.
C19_Witness ==
    /\ \A t \in Learners :
          /\ <<<<"learner", t>>, "D_eval", "read">> \in accesses
          /\ <<<<"learner", t>>, "actor_model", "write">> \in accesses
          /\ <<<<"learner", t>>, "stats", "write">> \in accesses
    /\ \A i \in InferenceThreads :
          <<<<"inference", i>>, "actor_model", "read">> \in accesses
    /\ <<<<"d_learner", 0>>, "D_eval", "write">> \in accesses
    /\ <<<<"d_learner", 0>>, "replay_buffer", "write">> \in accesses
    /\ <<<<"d_learner", 0>>, "stats", "write">> \in accesses

(***************************************************************************)
(* Properties of the learner lock and of the checkpoint record, checked    *)
(* under SpecRun.                                                          *)
(***************************************************************************)
\* C23: the lock of learn is held only while a learner thread is between
\* lock.acquire() and lock.release(); a learner thread that has ended, by
\* return or by an error, does not leave it held.
C23_LockReleasedOnExit ==
    (\A t \in Learners : lpc[t] \notin LockedRegion) =>
        \A t \in Learners : LearnLock(t) \notin held

\* C24: in a record written by this run the policy weights, the optimizer
\* state and the scheduler state are those after the same number of learner
\* iterations, and the step count of its stats is the one after that many
\* iterations.
C24_CheckpointConsistent ==
    (writes >= 1 /\ CheckpointKeys \subseteq DOMAIN checkpoint_file) =>
        /\ checkpoint_file.optimizer_state_dict =
              checkpoint_file.model_state_dict
        /\ checkpoint_file.scheduler_state_dict =
              checkpoint_file.model_state_dict
        /\ checkpoint_file.stats.step =
              initial_step + checkpoint_file.model_state_dict * StepsPerBatch

====
